---- MODULE Spec2Model ----
(***************************************************************************)
(* A model of ABayes (src/abayes/abayes.py) and MiniAb                     *)
(* (src/miniab/miniab.py): the on-disk artifact cache, the construction    *)
(* of an instance (compile), fit, and the result accessors.                *)
(*                                                                         *)
(* External collaborators are modelled by what the glue code observes of   *)
(* them: jinja2 finds a template or raises TemplateNotFound, stanc accepts *)
(* or rejects a rendered source, CmdStanModel(exe_file=...) raises         *)
(* ValueError when the file is missing, and sample() returns a new result  *)
(* object or raises.  md5 is modelled as a collision-free digest.          *)
(***************************************************************************)
EXTENDS Integers, Sequences, FiniteSets, TLC

VARIABLES
    cache,          \* files of abayes' CACHE_LOCATION: file name -> content
    miniab_cache,   \* files of miniab's CACHE_LOCATION: file name -> content
    creator,        \* history: cache file -> the configuration that opened it for writing
    mini_creator,   \* history: miniab cache file -> the configuration that opened it
    inst,           \* the ABayes instance the caller holds (None before any construction)
    mini,           \* the MiniAb instance the caller holds (None before any)
    last,           \* what the last operation did and returned or raised
    succeeded,      \* history: fingerprints for which an ABayes construction returned
    nconstruct,     \* constructions attempted so far
    nsample,        \* sampler invocations so far (names the result objects)
    pc,             \* racing processes: position inside ABayes.__init__/compile
    pcfg,           \* racing processes: the arguments of the construction
    phist           \* racing processes: what each has done in its construction

vars == <<cache, miniab_cache, creator, mini_creator, inst, mini, last,
          succeeded, nconstruct, nsample, pc, pcfg, phist>>

\* ---------------------------------------------------------------- bounds
MaxConstructs == 3
MaxSamples == 3
MaxLen == 2
NumProcs == 2

\* ---------------------------------------------------------------- values
\* Python's None, and the absence of an exception.
None == [none |-> TRUE]

NoError == "no error"

DEFAULT_PRIORS == [mu |-> "normal(0, 1)", sigma |-> "normal(0, 1)"]

\* Prior mappings a caller passes: the default, another well-formed one, and
\* one whose expression the Stan compiler rejects.
PriorChoices ==
    { DEFAULT_PRIORS,
      [mu |-> "normal(0, 10)", sigma |-> "normal(0, 1)"],
      [mu |-> "normal(0,", sigma |-> "normal(0, 1)"] }

\* Likelihood names a caller passes.
LikelihoodChoices == {"normal", "Normal", "bernoulli", "nosuch"}

\* The names of the templates found under templates/distributions: the two
\* families ABayes.summary tells apart (lines 102 and 104).
LIKELIHOODS == {"normal", "bernoulli"}

\* str.lower() on the names above.
lower(s) == IF s = "Normal" THEN "normal" ELSE s

\* Prior expressions the external Stan compiler accepts.
StancAccepts(src) ==
    /\ src.priors.mu \in {"normal(0, 1)", "normal(0, 10)"}
    /\ src.priors.sigma \in {"normal(0, 1)", "normal(0, 10)"}

\* json.dumps(tuple((priors, likelihood)))
json_dumps(priors, likelihood) ==
    "[{\"mu\": \"" \o priors.mu \o "\", \"sigma\": \"" \o priors.sigma
        \o "\"}, \"" \o likelihood \o "\"]"

\* md5(...).hexdigest(): a digest of the text, taken to be collision-free.
md5(text) == "md5<" \o text \o ">"

\* ABayes._hash
_hash(priors, likelihood) == md5(json_dumps(priors, likelihood))

\* MiniAb._hash
miniab_hash(priors, likelihood) == "1234"

\* ENVIRONMENT.get_template("distributions/" + likelihood.lower() + ".stan")
TemplateFound(likelihood) == lower(likelihood) \in LIKELIHOODS

\* template.render(priors=...): the text of the template with the priors in it.
_render_model(priors, likelihood) ==
    [template |-> lower(likelihood), priors |-> priors]

\* open(path, "w"): the file exists and is empty from here on.
EmptyFile == [kind |-> "empty"]

WriteFile(dir, name, content) ==
    [f \in DOMAIN dir \cup {name} |-> IF f = name THEN content ELSE dir[f]]

listdir(dir) == DOMAIN dir

NoFiles == [f \in {} |-> EmptyFile]

\* ---------------------------------------------------------------- ABayes.compile
\* The test of line 70 with `not in` read as `in`.
TakesBuildBranchInverted(dir, priors, likelihood, force) ==
    force \/ (_hash(priors, likelihood) \o ".stan") \in listdir(dir)

\* The branch of line 70: TRUE for render-write-compile, FALSE for reuse.
TakesBuildBranch(dir, priors, likelihood, force) ==
    force \/ (_hash(priors, likelihood) \o ".stan") \notin listdir(dir)

\* The outcome of ABayes.compile on cache directory dir: the directory
\* afterwards, the model returned (None when it raised), the error, and
\* which steps ran.
compile(dir, priors, likelihood, force) ==
    LET h == _hash(priors, likelihood)
        stan_file == h \o ".stan"
        opened == WriteFile(dir, stan_file, EmptyFile)
        rendered == _render_model(priors, likelihood)
        written == WriteFile(dir, stan_file, [kind |-> "source", text |-> rendered])
        built == WriteFile(written, h, [kind |-> "exe", of |-> rendered])
    IN  IF TakesBuildBranch(dir, priors, likelihood, force)
        THEN IF ~TemplateFound(likelihood)
             THEN [dir |-> opened, model |-> None, err |-> "ValueError: Cannot build model for likelihood",
                   names |-> likelihood, available |-> LIKELIHOODS,
                   path |-> "build", rendered |-> FALSE, wrote |-> FALSE, compiled |-> FALSE]
             ELSE IF ~StancAccepts(rendered)
             THEN [dir |-> written, model |-> None, err |-> "ValueError: Failed to compile",
                   names |-> "", available |-> {},
                   path |-> "build", rendered |-> TRUE, wrote |-> TRUE, compiled |-> TRUE]
             ELSE [dir |-> built, model |-> [exe_file |-> h, exe |-> built[h]], err |-> NoError,
                   names |-> "", available |-> {},
                   path |-> "build", rendered |-> TRUE, wrote |-> TRUE, compiled |-> TRUE]
        ELSE IF h \notin listdir(dir)
             THEN [dir |-> dir, model |-> None, err |-> "ValueError: no such file",
                   names |-> "", available |-> {},
                   path |-> "reuse", rendered |-> FALSE, wrote |-> FALSE, compiled |-> FALSE]
             ELSE [dir |-> dir, model |-> [exe_file |-> h, exe |-> dir[h]], err |-> NoError,
                   names |-> "", available |-> {},
                   path |-> "reuse", rendered |-> FALSE, wrote |-> FALSE, compiled |-> FALSE]

\* ---------------------------------------------------------------- state
NoOp == [op |-> "none", err |-> NoError]

ProcIds == 1..NumProcs

Init ==
    /\ cache = NoFiles
    /\ miniab_cache = NoFiles
    /\ creator = NoFiles
    /\ mini_creator = NoFiles
    /\ inst = None
    /\ mini = None
    /\ last = NoOp
    /\ succeeded = {}
    /\ nconstruct = 0
    /\ nsample = 0
    /\ pc = [p \in ProcIds |-> "idle"]
    /\ pcfg = [p \in ProcIds |-> None]
    /\ phist = [p \in ProcIds |-> None]

raceVars == <<pc, pcfg, phist>>

\* ABayes.__init__: compile, then _fit = None.  A construction that raises
\* leaves the caller with the instance it had.
Construct(likelihood, priors, force) ==
    /\ nconstruct < MaxConstructs
    /\ LET r == compile(cache, priors, likelihood, force)
           h == _hash(priors, likelihood)
       IN  /\ cache' = r.dir
           /\ creator' = IF r.path = "build"
                         THEN WriteFile(creator, h \o ".stan", <<priors, likelihood>>)
                         ELSE creator
           /\ inst' = IF r.err = NoError
                      THEN [_likelihood |-> likelihood, _priors |-> priors,
                            model |-> r.model, _fit |-> None,
                            draws |-> None, summary |-> None, fitted |-> 0]
                      ELSE inst
           /\ last' = [op |-> "ABayes", err |-> r.err, names |-> r.names,
                       available |-> r.available, likelihood |-> likelihood,
                       priors |-> priors, force |-> force, fingerprint |-> h,
                       path |-> r.path, rendered |-> r.rendered, wrote |-> r.wrote,
                       compiled |-> r.compiled,
                       had_source |-> (h \o ".stan") \in listdir(cache),
                       had_exe |-> h \in listdir(cache),
                       prior_success |-> h \in succeeded,
                       cache_same |-> (r.dir = cache)]
           /\ succeeded' = IF r.err = NoError THEN succeeded \cup {h} ELSE succeeded
    /\ nconstruct' = nconstruct + 1
    /\ UNCHANGED <<miniab_cache, mini_creator, mini, nsample, raceVars>>

\* ---------------------------------------------------------------- ABayes.fit
Obs == {0, 1}

\* The observation vectors a caller passes: every vector of at most MaxLen
\* observations.
Vectors == UNION { [1..n -> Obs] : n \in 0..MaxLen }

\* The datasets a caller passes: a number (no __iter__), a dict of two named
\* vectors, a pair of vectors, and a tuple of one or of three vectors.
DataChoices ==
    { [kind |-> "scalar", items |-> <<>>] }
    \cup { [kind |-> "dict",
            items |-> <<[key |-> "control", value |-> a],
                        [key |-> "treatment", value |-> b]>>] : a, b \in Vectors }
    \cup { [kind |-> "tuple", items |-> <<a, b>>] : a, b \in Vectors }
    \cup { [kind |-> "tuple", items |-> <<a>>] : a \in {<<>>, <<1>>} }
    \cup { [kind |-> "tuple", items |-> <<a, a, a>>] : a \in {<<>>, <<1>>} }

\* The guard of line 56 letting every dataset through.
HasIterAny(data) == TRUE

\* hasattr(data, "__iter__")
HasIter(data) == data.kind # "scalar"

\* dict.values(): the values in insertion order.
values(data) == [i \in 1..Len(data.items) |-> data.items[i].value]

\* What `y1, y2 = ...` iterates over (lines 58-61).
Unpacked(data) == IF data.kind = "dict" THEN values(data) ELSE data.items

\* [v] * n
Repeat(v, n) == [i \in 1..n |-> v]

\* np.hstack([y1, y2])
hstack(y1, y2) == y1 \o y2

\* The labels of line 63 with the two lengths exchanged.
group_labels_swapped(y1, y2) == Repeat(1, Len(y2)) \o Repeat(2, Len(y1))

\* _j = [1] * len(y1) + [2] * len(y2)
group_labels(y1, y2) == Repeat(1, Len(y1)) \o Repeat(2, Len(y2))

\* clean_data of line 64
clean_data(y1, y2) ==
    [N |-> Len(y1) + Len(y2), j |-> group_labels(y1, y2), y |-> hstack(y1, y2)]

\* ABayes.fit.  ok: whether the external sampler returns a result or raises.
Fit(data, ok) ==
    /\ inst # None
    /\ IF ~HasIter(data)
       THEN /\ last' = [op |-> "fit", err |-> "ValueError: Data passed to MiniAb.fit must be an iterable.",
                        data |-> data, sampled |-> FALSE, submitted |-> None,
                        fit_before |-> inst._fit]
            /\ UNCHANGED <<inst, nsample>>
       ELSE IF data.kind = "scalar"
       THEN /\ last' = [op |-> "fit", err |-> "TypeError: cannot unpack non-iterable object",
                        data |-> data, sampled |-> FALSE, submitted |-> None,
                        fit_before |-> inst._fit]
            /\ UNCHANGED <<inst, nsample>>
       ELSE IF Len(Unpacked(data)) # 2
       THEN /\ last' = [op |-> "fit", err |-> "ValueError: wrong number of values to unpack",
                        data |-> data, sampled |-> FALSE, submitted |-> None,
                        fit_before |-> inst._fit]
            /\ UNCHANGED <<inst, nsample>>
       ELSE LET y1 == Unpacked(data)[1]
                y2 == Unpacked(data)[2]
                result == [id |-> nsample + 1]
            IN  /\ nsample < MaxSamples
                /\ nsample' = nsample + 1
                /\ inst' = IF ok
                           THEN [inst EXCEPT !._fit = result, !.fitted = @ + 1]
                           ELSE inst
                /\ last' = [op |-> "fit",
                            err |-> IF ok THEN NoError ELSE "RuntimeError: Error during sampling",
                            data |-> data, sampled |-> TRUE,
                            submitted |-> clean_data(y1, y2),
                            fit_before |-> inst._fit]
    /\ UNCHANGED <<cache, miniab_cache, creator, mini_creator, mini, succeeded, nconstruct, raceVars>>

\* ---------------------------------------------------------------- accessors
NotFitYet == "AttributeError: The model has not been fit yet."

\* _check_fit_exists with the test of line 113 lost.
_check_fit_exists_always(obj) == TRUE

\* ABayes._check_fit_exists: TRUE when it returns, FALSE when it raises.
_check_fit_exists(obj) == obj._fit # None

\* az.from_cmdstanpy(self.cmdstan_mcmc)
inference_data(obj) == [kind |-> "inference_data", fit |-> obj._fit]

\* self._fit.stan_variables()
draws(obj) == [kind |-> "draws", fit |-> obj._fit]

\* The variable list of lines 101-105.
summary_variables(likelihood) ==
    <<"mu", "mu_diff">>
    \o (IF likelihood = "normal" THEN <<"sigma", "sigma_diff">> ELSE <<>>)
    \o (IF likelihood = "bernoulli" THEN <<"mu_prob", "mu_prob_diff">> ELSE <<>>)

\* az.summary(inference_data, var_names=variables)
summary(obj) ==
    [kind |-> "summary", fit |-> inference_data(obj).fit,
     var_names |-> summary_variables(obj._likelihood)]

\* functools.cached_property: the value stored in the instance, if any,
\* else the value computed now.
cached_property(stored, computed) == IF stored # None THEN stored ELSE computed

instVars == <<cache, miniab_cache, creator, mini_creator, mini, succeeded, nconstruct, nsample, raceVars>>

\* cmdstan_mcmc = property(lambda self: self._fit)
ReadCmdstanMcmc ==
    /\ inst # None
    /\ last' = [op |-> "cmdstan_mcmc", err |-> NoError, ret |-> inst._fit]
    /\ UNCHANGED <<inst, instVars>>

\* the inference_data property
ReadInferenceData ==
    /\ inst # None
    /\ last' = IF _check_fit_exists(inst)
               THEN [op |-> "inference_data", err |-> NoError, ret |-> inference_data(inst)]
               ELSE [op |-> "inference_data", err |-> NotFitYet, ret |-> None]
    /\ UNCHANGED <<inst, instVars>>

\* the draws cached_property
ReadDraws ==
    /\ inst # None
    /\ IF inst.draws = None /\ ~_check_fit_exists(inst)
       THEN /\ last' = [op |-> "draws", err |-> NotFitYet, ret |-> None]
            /\ UNCHANGED inst
       ELSE LET v == cached_property(inst.draws, draws(inst))
            IN  /\ last' = [op |-> "draws", err |-> NoError, ret |-> v]
                /\ inst' = [inst EXCEPT !.draws = v]
    /\ UNCHANGED instVars

\* the summary cached_property
ReadSummary ==
    /\ inst # None
    /\ IF inst.summary = None /\ ~_check_fit_exists(inst)
       THEN /\ last' = [op |-> "summary", err |-> NotFitYet, ret |-> None]
            /\ UNCHANGED inst
       ELSE LET v == cached_property(inst.summary, summary(inst))
            IN  /\ last' = [op |-> "summary", err |-> NoError, ret |-> v]
                /\ inst' = [inst EXCEPT !.summary = v]
    /\ UNCHANGED instVars

\* The configurations with which ABayes(likelihood, priors) returns an
\* instance against an empty cache.
Constructible ==
    { c \in LikelihoodChoices \X PriorChoices :
        compile(NoFiles, c[2], c[1], FALSE).err = NoError }

\* The state right after one such construction.
InitFit ==
    \E c \in Constructible :
        LET r == compile(NoFiles, c[2], c[1], FALSE)
            h == _hash(c[2], c[1])
        IN  /\ cache = r.dir
            /\ miniab_cache = NoFiles
            /\ creator = WriteFile(NoFiles, h \o ".stan", <<c[2], c[1]>>)
            /\ mini_creator = NoFiles
            /\ inst = [_likelihood |-> c[1], _priors |-> c[2],
                       model |-> r.model, _fit |-> None,
                       draws |-> None, summary |-> None, fitted |-> 0]
            /\ mini = None
            /\ last = NoOp
            /\ succeeded = {h}
            /\ nconstruct = 1
            /\ nsample = 0
            /\ pc = [p \in ProcIds |-> "idle"]
            /\ pcfg = [p \in ProcIds |-> None]
            /\ phist = [p \in ProcIds |-> None]

\* The datasets of the fit calls interleaved with accessor reads: one of each
\* shape.
FitChoices ==
    { d \in DataChoices :
        \A i \in 1..Len(Unpacked(d)) : Unpacked(d)[i] = <<1>> }

NextFit ==
    \/ \E d \in FitChoices, ok \in BOOLEAN : Fit(d, ok)
    \/ ReadCmdstanMcmc
    \/ ReadInferenceData
    \/ ReadDraws
    \/ ReadSummary

SpecFit == InitFit /\ [][NextFit]_vars

\* fit applied to every dataset of DataChoices, on a freshly constructed
\* instance.
NextData ==
    \E d \in DataChoices, ok \in BOOLEAN : nsample = 0 /\ Fit(d, ok)

SpecData == InitFit /\ [][NextData]_vars

\* ---------------------------------------------------------------- MiniAb
\* MiniAb._render_model: `env` is not a name of the module (the environment
\* is bound to ENVIRONMENT), so the lookup raises before any template is
\* looked for.
miniab_render_model(priors, likelihood) ==
    [raises |-> "NameError: name 'env' is not defined"]

\* MiniAb.compile on cache directory dir.  loads: whether
\* CmdStanModel(exe_file=...) accepts a file that is no executable.
miniab_compile(dir, priors, likelihood, loads) ==
    LET h == miniab_hash(priors, likelihood)
        opened == WriteFile(dir, h, EmptyFile)
    IN  IF h \in listdir(dir)
        THEN IF dir[h].kind = "exe" \/ loads
             THEN [dir |-> dir, model |-> [exe_file |-> h, exe |-> dir[h]],
                   err |-> NoError, path |-> "reuse"]
             ELSE [dir |-> dir, model |-> None,
                   err |-> "ValueError: not an executable", path |-> "reuse"]
        ELSE [dir |-> opened, model |-> None,
              err |-> miniab_render_model(priors, likelihood).raises, path |-> "build"]

\* MiniAb.__init__
MiniAbConstruct(likelihood, priors, loads) ==
    /\ nconstruct < MaxConstructs
    /\ LET r == miniab_compile(miniab_cache, priors, likelihood, loads)
           h == miniab_hash(priors, likelihood)
       IN  /\ miniab_cache' = r.dir
           /\ mini_creator' = IF r.path = "build"
                              THEN WriteFile(mini_creator, h, <<priors, likelihood>>)
                              ELSE mini_creator
           /\ mini' = IF r.err = NoError
                      THEN [_likelihood |-> likelihood, _priors |-> priors, model |-> r.model]
                      ELSE mini
           /\ last' = [op |-> "MiniAb", err |-> r.err, likelihood |-> likelihood,
                       priors |-> priors, fingerprint |-> h, path |-> r.path,
                       had_file |-> h \in listdir(miniab_cache)]
    /\ nconstruct' = nconstruct + 1
    /\ UNCHANGED <<cache, creator, inst, succeeded, nsample, raceVars>>

Next ==
    \/ \E l \in LikelihoodChoices, p \in PriorChoices, f \in BOOLEAN : Construct(l, p, f)
    \/ \E l \in LikelihoodChoices, p \in PriorChoices, b \in BOOLEAN : MiniAbConstruct(l, p, b)

Spec == Init /\ [][Next]_vars

\* ---------------------------------------------------------------- racing constructions
\* Several processes construct ABayes against one cache location.  Each
\* step is one access of ABayes.compile to the cache directory.

\* The constructions the racing processes make.
RaceChoices ==
    { [likelihood |-> l, priors |-> DEFAULT_PRIORS, force |-> f] :
        l \in {"normal", "nosuch"}, f \in BOOLEAN }

fingerprint(c) == _hash(c.priors, c.likelihood)

\* compile entered under a lock held until the construction ends.
MayEnterLocked(p) ==
    \A q \in ProcIds \ {p} : pc[q] \notin {"open", "render", "compile", "load"}

\* What admits a process to the cache check of line 70: nothing is awaited,
\* no lock is taken.
MayEnter(p) == TRUE

\* A process calls ABayes(likelihood, priors, force_compile=force).
RaceBegin(p, c) ==
    /\ pc[p] = "idle"
    /\ nconstruct < MaxConstructs
    /\ nconstruct' = nconstruct + 1
    /\ pc' = [pc EXCEPT ![p] = "check"]
    /\ pcfg' = [pcfg EXCEPT ![p] = c]
    /\ phist' = [phist EXCEPT ![p] = None]
    /\ UNCHANGED <<cache, miniab_cache, creator, mini_creator, inst, mini, last,
                   succeeded, nsample>>

\* Line 70: os.listdir and the choice of the branch.
RaceCheck(p) ==
    /\ pc[p] = "check"
    /\ MayEnter(p)
    /\ LET c == pcfg[p]
           build == TakesBuildBranch(cache, c.priors, c.likelihood, c.force)
       IN  /\ pc' = [pc EXCEPT ![p] = IF build THEN "open" ELSE "load"]
           /\ phist' = [phist EXCEPT ![p] =
                          [path |-> IF build THEN "build" ELSE "reuse",
                           saw_source |-> (fingerprint(c) \o ".stan") \in listdir(cache),
                           saw_exe |-> fingerprint(c) \in listdir(cache)]]
    /\ UNCHANGED <<cache, miniab_cache, creator, mini_creator, inst, mini, last,
                   succeeded, nconstruct, nsample, pcfg>>

\* Line 72: open(stan_file_path, "w") creates or truncates the file.
RaceOpen(p) ==
    /\ pc[p] = "open"
    /\ cache' = WriteFile(cache, fingerprint(pcfg[p]) \o ".stan", EmptyFile)
    /\ creator' = WriteFile(creator, fingerprint(pcfg[p]) \o ".stan",
                            <<pcfg[p].priors, pcfg[p].likelihood>>)
    /\ pc' = [pc EXCEPT ![p] = "render"]
    /\ UNCHANGED <<miniab_cache, mini_creator, inst, mini, last, succeeded,
                   nconstruct, nsample, pcfg, phist>>

\* Line 73: render and write, or raise out of the construction.
RaceRender(p) ==
    /\ pc[p] = "render"
    /\ LET c == pcfg[p]
       IN  IF TemplateFound(c.likelihood)
           THEN /\ cache' = WriteFile(cache, fingerprint(c) \o ".stan",
                                      [kind |-> "source",
                                       text |-> _render_model(c.priors, c.likelihood)])
                /\ pc' = [pc EXCEPT ![p] = "compile"]
           ELSE /\ pc' = [pc EXCEPT ![p] = "raised"]
                /\ UNCHANGED cache
    /\ UNCHANGED <<miniab_cache, creator, mini_creator, inst, mini, last, succeeded,
                   nconstruct, nsample, pcfg, phist>>

\* Line 74: CmdStanModel(stan_file=...) compiles the file as it is now.
\* empty_ok: whether the compiler accepts a file another process has just
\* truncated.
RaceCompile(p, empty_ok) ==
    /\ pc[p] = "compile"
    /\ LET c == pcfg[p]
           src == cache[fingerprint(c) \o ".stan"]
           accepted == IF src.kind = "source" THEN StancAccepts(src.text) ELSE empty_ok
       IN  IF accepted
           THEN /\ cache' = WriteFile(cache, fingerprint(c),
                                      [kind |-> "exe",
                                       of |-> IF src.kind = "source" THEN src.text ELSE src])
                /\ pc' = [pc EXCEPT ![p] = "returned"]
           ELSE /\ pc' = [pc EXCEPT ![p] = "raised"]
                /\ UNCHANGED cache
    /\ UNCHANGED <<miniab_cache, creator, mini_creator, inst, mini, last, succeeded,
                   nconstruct, nsample, pcfg, phist>>

\* Line 76: CmdStanModel(exe_file=...) raises when the file is not there.
RaceLoad(p) ==
    /\ pc[p] = "load"
    /\ pc' = [pc EXCEPT ![p] = IF fingerprint(pcfg[p]) \in listdir(cache)
                               THEN "returned" ELSE "raised"]
    /\ UNCHANGED <<cache, miniab_cache, creator, mini_creator, inst, mini, last,
                   succeeded, nconstruct, nsample, pcfg, phist>>

\* The construction has returned or raised; the process may construct again.
RaceEnd(p) ==
    /\ pc[p] \in {"returned", "raised"}
    /\ pc' = [pc EXCEPT ![p] = "idle"]
    /\ UNCHANGED <<cache, miniab_cache, creator, mini_creator, inst, mini, last,
                   succeeded, nconstruct, nsample, pcfg, phist>>

NextRace ==
    \E p \in ProcIds :
        \/ \E c \in RaceChoices : RaceBegin(p, c)
        \/ RaceCheck(p)
        \/ RaceOpen(p)
        \/ RaceRender(p)
        \/ \E b \in BOOLEAN : RaceCompile(p, b)
        \/ RaceLoad(p)
        \/ RaceEnd(p)

SpecRace == Init /\ [][NextRace]_vars

\* ---------------------------------------------------------------- properties
Accessors == {"draws", "summary", "inference_data"}

\* C1: while no fit of the instance has completed successfully, reading
\* draws, summary or inference_data raises AttributeError 'The model has not
\* been fit yet.' and returns nothing.
C1_UnfitAccessRaises ==
    (inst.fitted = 0 /\ last.op \in Accessors)
        => (last.err = NotFitYet /\ last.ret = None)

\* C1 witness: summary was read after a fit call in which the sampler failed.
C1_Witness ==
    /\ inst.fitted = 0
    /\ nsample > 0
    /\ last.op = "summary"

\* C2: after successful fits interleaved with reads, every accessor returns
\* a view of the result of the most recent successful fit.
C2_AccessorsShowLatestFit ==
    (inst.fitted > 0 /\ last.op \in Accessors \cup {"cmdstan_mcmc"} /\ last.err = NoError)
        => IF last.op = "cmdstan_mcmc"
           THEN last.ret = inst._fit
           ELSE last.ret.fit = inst._fit

\* C3: every construction of ABayes with a likelihood name that has no
\* template fails with the ValueError that names the likelihood and lists
\* the available names, whatever the cache holds.
C3_UnsupportedAlwaysDescriptive ==
    (last.op = "ABayes" /\ lower(last.likelihood) \notin LIKELIHOODS)
        => /\ last.err = "ValueError: Cannot build model for likelihood"
           /\ last.names = last.likelihood
           /\ last.available = LIKELIHOODS

\* C4: compile takes the reuse branch only when the executable of the
\* fingerprint is in the cache and recompilation is not forced; otherwise it
\* takes the render-write-compile branch.
C4_ReuseOnlyWithExecutable ==
    last.op = "ABayes"
        => (last.path = "reuse" <=> (last.had_exe /\ ~last.force))

\* C5: once a construction has succeeded for a fingerprint, a later
\* construction with that fingerprint reuses the artifact without rendering,
\* writing or compiling and leaves the cache as it was, unless it forces
\* recompilation, and then it renders, writes and compiles again.
C5_ReuseAfterSuccess ==
    (last.op = "ABayes" /\ last.prior_success)
        => IF last.force
           THEN last.path = "build" /\ last.rendered /\ last.wrote /\ last.compiled
           ELSE /\ last.path = "reuse"
                /\ last.err = NoError
                /\ ~last.rendered /\ ~last.wrote /\ ~last.compiled
                /\ last.cache_same

\* C5 witness: a construction without force after an earlier success, and
\* after the cache has seen another configuration too.
C5_Witness ==
    /\ last.op = "ABayes"
    /\ last.prior_success
    /\ ~last.force
    /\ Cardinality(DOMAIN cache) > 2

\* C6: the record fit submits for two groups of sizes m and n has N = m+n,
\* y = the first group followed by the second, and j = m ones followed by n
\* twos.
C6_RecordShape ==
    (last.op = "fit" /\ last.data.kind \in {"dict", "tuple"} /\ Len(last.data.items) = 2)
        => LET a == IF last.data.kind = "dict" THEN last.data.items[1].value
                    ELSE last.data.items[1]
               b == IF last.data.kind = "dict" THEN last.data.items[2].value
                    ELSE last.data.items[2]
               m == Len(a)
               n == Len(b)
               r == last.submitted
           IN  /\ last.sampled
               /\ r.N = m + n
               /\ Len(r.y) = m + n
               /\ Len(r.j) = m + n
               /\ \A i \in 1..m : r.y[i] = a[i] /\ r.j[i] = 1
               /\ \A i \in 1..n : r.y[m + i] = b[i] /\ r.j[m + i] = 2

\* C6 witness: a dict of two groups of different sizes and different
\* observations was fitted.
C6_Witness ==
    /\ last.op = "fit"
    /\ last.data.kind = "dict"
    /\ last.sampled
    /\ Len(last.data.items[1].value) = MaxLen
    /\ Len(last.data.items[2].value) = 1
    /\ last.data.items[1].value[1] # last.data.items[2].value[1]

\* C7: fit on data without an iteration protocol raises the ValueError of
\* line 57 before the sampler is invoked and leaves the stored fit result
\* as it was.
C7_NonIterableRejected ==
    (last.op = "fit" /\ last.data.kind = "scalar")
        => /\ last.err = "ValueError: Data passed to MiniAb.fit must be an iterable."
           /\ ~last.sampled
           /\ inst._fit = last.fit_before

\* C7 witness: a number was passed to fit on an instance that already held
\* a result.
C7_Witness ==
    /\ last.op = "fit"
    /\ last.data.kind = "scalar"
    /\ inst.fitted > 0

\* The variables summary asked for, as a set.
Requested == { last.ret.var_names[i] : i \in 1..Len(last.ret.var_names) }

\* C8: the variable list of summary is decided by the family of the
\* template the instance was built from: mu and mu_diff always, sigma and
\* sigma_diff exactly for normal, mu_prob and mu_prob_diff exactly for
\* bernoulli.
C8_SummaryByFamily ==
    (last.op = "summary" /\ last.err = NoError)
        => LET family == lower(inst._likelihood)
           IN  /\ {"mu", "mu_diff"} \subseteq Requested
               /\ \A v \in {"sigma", "sigma_diff"} : v \in Requested <=> family = "normal"
               /\ \A v \in {"mu_prob", "mu_prob_diff"} : v \in Requested <=> family = "bernoulli"

\* C9: in both variants the cache key is a fingerprint of the
\* configuration: a construction reuses only a file created for a
\* configuration that renders to its own model source, and the model an
\* instance holds was compiled from the rendering of its own configuration.
C9_FingerprintIsContentDerived ==
    /\ (last.op = "ABayes" /\ last.path = "reuse")
          => LET made == creator[last.fingerprint \o ".stan"]
             IN  _render_model(made[1], made[2])
                     = _render_model(last.priors, last.likelihood)
    /\ (last.op = "MiniAb" /\ last.path = "reuse")
          => LET made == mini_creator[last.fingerprint]
             IN  _render_model(made[1], made[2])
                     = _render_model(last.priors, last.likelihood)
    /\ inst # None
          => inst.model.exe = [kind |-> "exe",
                               of |-> _render_model(inst._priors, inst._likelihood)]
    /\ mini # None
          => mini.model.exe = [kind |-> "exe",
                               of |-> _render_model(mini._priors, mini._likelihood)]

C10_BothBuild ==
    \E p, q \in ProcIds :
        /\ p # q
        /\ nconstruct = 2
        /\ pc[p] = "compile"
        /\ pc[q] = "compile"
        /\ fingerprint(pcfg[p]) = fingerprint(pcfg[q])
        /\ ~pcfg[p].force /\ ~pcfg[q].force

====
